---- MODULE Spec2Model ----
(***************************************************************************)
(* Model of the fraction calculator: the Fraction value type               *)
(* (src/fraction_calculator/src/fraction.rs) and the expression pipeline   *)
(* Equation::eval = tokenize ; shunting_yard_algorithm ; evaluate_rpn      *)
(* (src/fraction_calculator/src/equation.rs).                              *)
(*                                                                         *)
(* A string is a sequence of one-character strings.  A Fraction is a       *)
(* record [numerator, denominator].  The inputs of the operators are small *)
(* enough that no i32 operation of the code overflows: TLC's integers are  *)
(* 32 bits wide too, and TLC stops with an error on an overflow.  The      *)
(* stepwise runs of simplify and == also take Fractions at the ends of the *)
(* i32 range, with overflow as the build decides it: a panic or a wrap.    *)
(***************************************************************************)
EXTENDS Integers, Sequences, FiniteSets

\* ------------------------------------------------------------------ bounds
\* longest line, in space-separated words, built from GoodWords
MaxTokens == 5
\* longest line, in space-separated words, built from RichWords
MaxRichTokens == 3
\* longest token sequence handed to shunting_yard_algorithm directly
MaxDirect == 2
\* numerators and denominators of the sampled Fraction triples: -MaxAbs..MaxAbs
MaxAbs == 2
\* numerators and denominators of the Fractions given to simplify alone
MaxSimplify == 32
\* numerators and denominators of the Fraction pairs of the stepwise runs
MaxGcd == 3

\* largest i32
I32_MAX == 2147483647
\* smallest i32
I32_MIN == (-I32_MAX) - 1

\* ------------------------------------------------------ fraction.rs: gcd
Abs(x) == IF x < 0 THEN -x ELSE x

\* Rust's integer division truncates toward zero; i32::MIN, which has no
\* absolute value in i32, is divided by way of its neighbour
TruncDivAbs(a, b) ==
    IF (a < 0) = (b < 0) THEN Abs(a) \div Abs(b) ELSE -(Abs(a) \div Abs(b))

TruncDiv(a, b) ==
    IF b = I32_MIN THEN (IF a = I32_MIN THEN 1 ELSE 0)
    ELSE IF a = I32_MIN
         THEN IF b > 0 THEN TruncDivAbs(a + b, b) - 1 ELSE TruncDivAbs(a - b, b) + 1
         ELSE TruncDivAbs(a, b)

RECURSIVE gcd_loop(_, _)
gcd_loop(a, b) ==
    IF a = b THEN a
    ELSE IF a < b THEN gcd_loop(a, b - a)
    ELSE gcd_loop(a - b, b)

gcd(a, b) == gcd_loop(IF a < 0 THEN a * (-1) ELSE a, IF b < 0 THEN b * (-1) ELSE b)

\* ------------------------------------------------- fraction.rs: Fraction
new(numerator, denominator) ==
    [numerator |-> numerator, denominator |-> denominator]

is_zero(self) == self.numerator = 0

is_undefined(self) == self.denominator = 0

is_same_as(self, other) ==
    self.numerator = other.numerator /\ self.denominator = other.denominator

\* variant: simplify without lines 59-62
simplify_nosign(self) ==
    IF is_zero(self) \/ is_undefined(self) THEN self
    ELSE LET g == gcd(self.numerator, self.denominator)
         IN  new(TruncDiv(self.numerator, g), TruncDiv(self.denominator, g))

simplify(self) ==
    IF is_zero(self) \/ is_undefined(self) THEN self
    ELSE LET g == gcd(self.numerator, self.denominator)
             n == TruncDiv(self.numerator, g)
             d == TruncDiv(self.denominator, g)
         IN  IF d < 0 THEN new(n * (-1), d * (-1)) ELSE new(n, d)

clone_simplified(self) == simplify(self)

\* variant: the parts left where they are
reciprocal_unswapped(self) == self

reciprocal(self) == new(self.denominator, self.numerator)

from(num) == new(num, 1)

add(self, other) ==
    IF self.denominator = other.denominator
    THEN new(self.numerator + other.numerator, self.denominator)
    ELSE new(self.numerator * other.denominator + other.numerator * self.denominator,
             self.denominator * other.denominator)

neg(self) == new(-self.numerator, self.denominator)

sub(self, other) == add(self, neg(other))

mul(self, other) ==
    new(self.numerator * other.numerator, self.denominator * other.denominator)

div(self, other) == mul(self, reciprocal(other))

\* variant: only self is simplified
eq_onesided(self, other) ==
    \/ is_same_as(self, other)
    \/ is_same_as(clone_simplified(self), other)

eq(self, other) ==
    \/ is_same_as(self, other)
    \/ LET f1 == clone_simplified(self)
           f2 == clone_simplified(other)
       IN  is_same_as(f1, f2)

eq_i32(self, other) == eq(self, from(other))

\* ------------------------------------------- fraction.rs: impl FromStr
Digits == {"0", "1", "2", "3", "4", "5", "6", "7", "8", "9"}

DigitVal(c) ==
    CASE c = "0" -> 0 [] c = "1" -> 1 [] c = "2" -> 2 [] c = "3" -> 3
      [] c = "4" -> 4 [] c = "5" -> 5 [] c = "6" -> 6 [] c = "7" -> 7
      [] c = "8" -> 8 [] c = "9" -> 9

ParseOk(v) == [ok |-> TRUE, val |-> v]
ParseErr == [ok |-> FALSE, val |-> 0]

\* the digit loop of str::parse::<i32>: an invalid digit or an overflow is an error
RECURSIVE parse_digits(_, _, _, _)
parse_digits(s, i, acc, positive) ==
    IF i > Len(s) THEN ParseOk(acc)
    ELSE IF s[i] \notin Digits THEN ParseErr
    ELSE LET d == DigitVal(s[i])
         IN  IF positive
             THEN IF acc > TruncDiv(I32_MAX - d, 10) THEN ParseErr
                  ELSE parse_digits(s, i + 1, acc * 10 + d, positive)
             ELSE IF acc < TruncDiv(I32_MIN + d, 10) THEN ParseErr
                  ELSE parse_digits(s, i + 1, acc * 10 - d, positive)

\* str::parse::<i32>: an optional sign, then at least one digit
parse_i32(s) ==
    IF Len(s) = 0 THEN ParseErr
    ELSE IF Len(s) = 1 /\ s[1] \in {"+", "-"} THEN ParseErr
    ELSE IF s[1] = "+" THEN parse_digits(s, 2, 0, TRUE)
    ELSE IF s[1] = "-" THEN parse_digits(s, 2, 0, FALSE)
    ELSE parse_digits(s, 1, 0, TRUE)

\* str::find: the index of the first c in s, 0 when there is none
RECURSIVE find_from(_, _, _)
find_from(s, c, i) ==
    IF i > Len(s) THEN 0
    ELSE IF s[i] = c THEN i
    ELSE find_from(s, c, i + 1)

find(s, c) == find_from(s, c, 1)

from_str(s) ==
    LET i == find(s, "/")
    IN  IF i # 0
        THEN LET numerator == parse_i32(SubSeq(s, 1, i - 1))
             IN  IF ~numerator.ok THEN [ok |-> FALSE, fraction |-> new(0, 0)]
                 ELSE LET denominator == parse_i32(SubSeq(s, i + 1, Len(s)))
                      IN  IF ~denominator.ok THEN [ok |-> FALSE, fraction |-> new(0, 0)]
                          ELSE [ok |-> TRUE,
                                fraction |-> new(numerator.val, denominator.val)]
        ELSE LET num == parse_i32(s)
             IN  IF num.ok THEN [ok |-> TRUE, fraction |-> from(num.val)]
                 ELSE [ok |-> FALSE, fraction |-> new(0, 0)]

\* ------------------------------------------ equation.rs: tokens, errors
UnableToTokenize == "UnableToTokenize"
UnableToConvertToPostfix == "UnableToConvertToPostfix"
UnableToEvaluate == "UnableToEvaluate"

OperatorType == {"Add", "Sub", "Mul", "Div"}

precedence(self) ==
    CASE self = "Add" -> 0
      [] self = "Sub" -> 0
      [] self = "Mul" -> 1
      [] self = "Div" -> 1

Number(fraction) == [kind |-> "Number", fraction |-> fraction]
Operator(operator_type) == [kind |-> "Operator", op |-> operator_type]

IsNumber(token) == token.kind = "Number"
IsOperator(token) == token.kind = "Operator"

Ok(v) == [tag |-> "Ok", value |-> v]
Err(e) == [tag |-> "Err", error |-> e]
\* eval has not returned yet
Pending == [tag |-> "Pending"]

\* ------------------------------------------------ equation.rs: tokenize
\* str::split(' '): the substrings between single spaces, empty ones included
RECURSIVE split_from(_, _, _)
split_from(s, i, cur) ==
    IF i > Len(s) THEN <<cur>>
    ELSE IF s[i] = " " THEN <<cur>> \o split_from(s, i + 1, <<>>)
    ELSE split_from(s, i + 1, Append(cur, s[i]))

split(s) == split_from(s, 1, <<>>)

\* variant: a word that is no token is skipped
RECURSIVE tokenize_skip(_, _, _)
tokenize_skip(parts, i, tokens) ==
    IF i > Len(parts) THEN Ok(tokens)
    ELSE LET token == parts[i]
         IN  IF token = <<"+">> THEN tokenize_skip(parts, i + 1, Append(tokens, Operator("Add")))
             ELSE IF token = <<"-">> THEN tokenize_skip(parts, i + 1, Append(tokens, Operator("Sub")))
             ELSE IF token = <<"*">> THEN tokenize_skip(parts, i + 1, Append(tokens, Operator("Mul")))
             ELSE IF token = <<"/">> THEN tokenize_skip(parts, i + 1, Append(tokens, Operator("Div")))
             ELSE LET parsed == from_str(token)
                  IN  IF parsed.ok
                      THEN tokenize_skip(parts, i + 1, Append(tokens, Number(parsed.fraction)))
                      ELSE tokenize_skip(parts, i + 1, tokens)

\* lines 95-110: the for loop over the substrings, returning at the first bad one
RECURSIVE tokenize_loop(_, _, _)
tokenize_loop(parts, i, tokens) ==
    IF i > Len(parts) THEN Ok(tokens)
    ELSE LET token == parts[i]
         IN  IF token = <<"+">> THEN tokenize_loop(parts, i + 1, Append(tokens, Operator("Add")))
             ELSE IF token = <<"-">> THEN tokenize_loop(parts, i + 1, Append(tokens, Operator("Sub")))
             ELSE IF token = <<"*">> THEN tokenize_loop(parts, i + 1, Append(tokens, Operator("Mul")))
             ELSE IF token = <<"/">> THEN tokenize_loop(parts, i + 1, Append(tokens, Operator("Div")))
             ELSE LET parsed == from_str(token)
                  IN  IF parsed.ok
                      THEN tokenize_loop(parts, i + 1, Append(tokens, Number(parsed.fraction)))
                      ELSE Err(UnableToTokenize)

tokenize(input) == tokenize_loop(split(input), 1, <<>>)

\* --------------------------------- equation.rs: shunting_yard_algorithm
Last(stack) == stack[Len(stack)]
Pop(stack) == SubSeq(stack, 1, Len(stack) - 1)

RECURSIVE Reverse(_)
Reverse(s) == IF s = <<>> THEN <<>> ELSE Append(Reverse(Tail(s)), Head(s))

\* variant: an operator of equal precedence stays on the stack too
higher_precedence_geq(current_operator, top_operator) ==
    precedence(current_operator) >= precedence(top_operator)

\* line 122: the incoming operator binds tighter than the stack top
higher_precedence(current_operator, top_operator) ==
    precedence(current_operator) > precedence(top_operator)

SyState(output_queue, operator_stack, failed) ==
    [output_queue |-> output_queue, operator_stack |-> operator_stack, failed |-> failed]

\* variant: the loop written with pop() in its condition instead of last()
RECURSIVE pop_loop_popping_condition(_, _, _)
pop_loop_popping_condition(current_operator, output_queue, operator_stack) ==
    IF Len(operator_stack) > 0 /\ IsOperator(Last(operator_stack))
    THEN LET top_operator == Last(operator_stack).op
             rest == Pop(operator_stack)
         IN  IF higher_precedence(current_operator, top_operator)
             THEN SyState(output_queue, rest, FALSE)
             ELSE IF Len(rest) > 0
                  THEN pop_loop_popping_condition(current_operator,
                           Append(output_queue, Last(rest)), Pop(rest))
                  ELSE SyState(output_queue, rest, TRUE)
    ELSE SyState(output_queue, operator_stack, FALSE)

\* lines 121-133: the while-let loop run for one incoming operator
RECURSIVE pop_loop(_, _, _)
pop_loop(current_operator, output_queue, operator_stack) ==
    IF Len(operator_stack) > 0 /\ IsOperator(Last(operator_stack))
    THEN LET top_operator == Last(operator_stack).op
         IN  IF higher_precedence(current_operator, top_operator)
             THEN SyState(output_queue, operator_stack, FALSE)
             ELSE IF Len(operator_stack) > 0
                  THEN pop_loop(current_operator,
                           Append(output_queue, Last(operator_stack)), Pop(operator_stack))
                  ELSE SyState(output_queue, operator_stack, TRUE)
    ELSE SyState(output_queue, operator_stack, FALSE)

\* variant: the remaining stack appended bottom first
flush_bottom_first(output_queue, operator_stack) == output_queue \o operator_stack

\* lines 139-144: the remaining stack, last pushed first
flush(output_queue, operator_stack) == output_queue \o Reverse(operator_stack)

\* ------------------------------------------- equation.rs: evaluate_rpn
apply(operator, num1, num2) ==
    CASE operator = "Add" -> add(num1, num2)
      [] operator = "Sub" -> sub(num1, num2)
      [] operator = "Mul" -> mul(num1, num2)
      [] operator = "Div" -> div(num1, num2)

\* lines 175-179: the value on top of the stack, whatever lies below it
final_value(number_stack) ==
    IF Len(number_stack) > 0 /\ IsNumber(Last(number_stack))
    THEN Ok(Last(number_stack).fraction)
    ELSE Err(UnableToEvaluate)

\* variant: the operands applied as num2 op num1
RECURSIVE rpn_loop_swapped(_, _, _)
rpn_loop_swapped(postfix, i, number_stack) ==
    IF i > Len(postfix) THEN final_value(number_stack)
    ELSE LET token == postfix[i]
         IN  IF IsNumber(token)
             THEN rpn_loop_swapped(postfix, i + 1, Append(number_stack, token))
             ELSE IF Len(number_stack) > 0 /\ IsNumber(Last(number_stack))
                  THEN LET num2 == Last(number_stack).fraction
                           rest == Pop(number_stack)
                       IN  IF Len(rest) > 0 /\ IsNumber(Last(rest))
                           THEN LET num1 == Last(rest).fraction
                                IN  rpn_loop_swapped(postfix, i + 1,
                                        Append(Pop(rest), Number(apply(token.op, num2, num1))))
                           ELSE Err(UnableToEvaluate)
                  ELSE Err(UnableToEvaluate)

\* lines 152-173: the for loop over the postfix tokens, then the final pop
RECURSIVE rpn_loop(_, _, _)
rpn_loop(postfix, i, number_stack) ==
    IF i > Len(postfix) THEN final_value(number_stack)
    ELSE LET token == postfix[i]
         IN  IF IsNumber(token)
             THEN rpn_loop(postfix, i + 1, Append(number_stack, token))
             ELSE IF Len(number_stack) > 0 /\ IsNumber(Last(number_stack))
                  THEN LET num2 == Last(number_stack).fraction
                           rest == Pop(number_stack)
                       IN  IF Len(rest) > 0 /\ IsNumber(Last(rest))
                           THEN LET num1 == Last(rest).fraction
                                IN  rpn_loop(postfix, i + 1,
                                        Append(Pop(rest), Number(apply(token.op, num1, num2))))
                           ELSE Err(UnableToEvaluate)
                  ELSE Err(UnableToEvaluate)

evaluate_rpn(postfix) == rpn_loop(postfix, 1, <<>>)

\* ------------------------------------------------------------ the inputs
Plus == <<"+">>
Minus == <<"-">>
Star == <<"*">>
Slash == <<"/">>
OperatorWords == {Plus, Minus, Star, Slash}

\* two literals of tests::rpn2
W_2_3 == <<"2", "/", "3">>
W_m8_7 == <<"-", "8", "/", "7">>
GoodWords == OperatorWords \cup {W_2_3, W_m8_7}

\* integers (tests::eval1), a zero, a signed literal, and words that are no token
W_3 == <<"3">>
W_4 == <<"4">>
W_0 == <<"0">>
W_p1_2 == <<"+", "1", "/", "2">>
W_empty == <<>>
W_query == <<"?">>
W_noden == <<"3", "/">>
W_nonum == <<"/", "4">>
W_twoslash == <<"3", "/", "4", "/", "0">>
W_twosign == <<"-", "-", "3">>
BadWords == {W_empty, W_query, W_noden, W_nonum, W_twoslash, W_twosign}
RichWords == OperatorWords \cup {W_3, W_4, W_0, W_p1_2} \cup BadWords

RECURSIVE Join(_)
Join(words) ==
    IF Len(words) = 1 THEN words[1]
    ELSE words[1] \o <<" ">> \o Join(Tail(words))

\* the lines of tests::eval1 and tests::eval2
TestLines ==
    {<<"3", " ", "+", " ", "4">>,
     <<"1", "/", "2", " ", "+", " ", "2", " ", "*", " ", "-", "1", "/", "8">>}

\* lines that divide by a zero-valued literal inside a longer expression
W_0_7 == <<"0", "/", "7">>
W_0_m3 == <<"0", "/", "-", "3">>
ZeroDivisionLines ==
    {Join(<<W_2_3, Slash, W_0_7, Minus, W_m8_7>>),
     Join(<<W_3, Plus, W_4, Slash, W_0, Star, W_2_3>>),
     Join(<<W_m8_7, Slash, W_0_m3>>)}

\* s is between one and n words of W joined by single spaces
IsLineOf(s, W, n) == \E k \in 1..n : \E ws \in [1..k -> W] : s = Join(ws)

\* the token sequences of tests::rpn1 and tests::rpn2
TestTokens ==
    {<<Number(new(3, 1)), Operator("Add"), Number(new(4, 1))>>,
     <<Number(new(2, 3)), Operator("Add"), Number(new(5, 8)), Operator("Mul"),
       Number(new(-8, 7))>>}

\* the token sequences of a direct call: the tests', and all the short ones
DirectTokens ==
    LET T == {Number(new(2, 3)), Number(new(5, 8)), Number(new(-8, 7)),
              Operator("Add"), Operator("Sub"), Operator("Mul"), Operator("Div")}
    IN  UNION {[1..k -> T] : k \in 0..MaxDirect} \cup TestTokens

Range(n) == (-n)..n
Fractions(n) == {new(a, b) : a \in Range(n), b \in Range(n)}

\* ------------------------------------------------------------- the state
VARIABLES
    entry,           \* the function called: eval, or shunting_yard_algorithm alone
    line,            \* eval's input, a sequence of characters
    pc,              \* where eval is: tokenize, shunting_yard, evaluate_rpn, done
    tokens,          \* tokenize's result
    idx,             \* tokens consumed by shunting_yard_algorithm's for loop
    output_queue,    \* shunting_yard_algorithm's output so far
    operator_stack,  \* shunting_yard_algorithm's operator stack
    rpn,             \* shunting_yard_algorithm's result
    result,          \* what the called function returned
    fx, fy, fz,      \* Fraction operands
    fpc,             \* the Fraction operation that ran last
    fres             \* its results

vars == <<entry, line, pc, tokens, idx, output_queue, operator_stack, rpn, result,
          fx, fy, fz, fpc, fres>>
evalVars == <<entry, line, pc, tokens, idx, output_queue, operator_stack, rpn, result>>
fracVars == <<fx, fy, fz, fpc, fres>>

\* ------------------------------------------------ equation.rs: eval
FracIdle ==
    /\ fx = new(0, 1) /\ fy = new(0, 1) /\ fz = new(0, 1)
    /\ fpc = "idle"
    /\ fres = <<>>

\* Equation::eval(input)
InitEval ==
    /\ entry = "eval"
    /\ \/ IsLineOf(line, GoodWords, MaxTokens)
       \/ IsLineOf(line, RichWords, MaxRichTokens)
       \/ line \in TestLines
       \/ line \in ZeroDivisionLines
    /\ pc = "tokenize"
    /\ tokens = <<>>

\* Equation::shunting_yard_algorithm(&tokens), called as the unit tests call it
InitDirect ==
    /\ entry = "shunting_yard_algorithm"
    /\ line = <<>>
    /\ pc = "shunting_yard"
    /\ tokens \in DirectTokens

Init ==
    /\ (InitEval \/ InitDirect)
    /\ idx = 0
    /\ output_queue = <<>>
    /\ operator_stack = <<>>
    /\ rpn = <<>>
    /\ result = Pending
    /\ FracIdle

\* line 87
Tokenize ==
    /\ pc = "tokenize"
    /\ LET r == tokenize(line)
       IN  IF r.tag = "Ok"
           THEN /\ tokens' = r.value
                /\ pc' = "shunting_yard"
                /\ UNCHANGED result
           ELSE /\ result' = r
                /\ pc' = "done"
                /\ UNCHANGED tokens
    /\ UNCHANGED <<entry, line, idx, output_queue, operator_stack, rpn>>
    /\ UNCHANGED fracVars

\* line 119: one iteration of the for loop, on a Number
ShuntNumber ==
    /\ pc = "shunting_yard"
    /\ idx < Len(tokens)
    /\ IsNumber(tokens[idx + 1])
    /\ output_queue' = Append(output_queue, tokens[idx + 1])
    /\ idx' = idx + 1
    /\ UNCHANGED <<entry, line, pc, tokens, operator_stack, rpn, result>>
    /\ UNCHANGED fracVars

\* lines 120-135: one iteration of the for loop, on an Operator
ShuntOperator ==
    /\ pc = "shunting_yard"
    /\ idx < Len(tokens)
    /\ IsOperator(tokens[idx + 1])
    /\ LET token == tokens[idx + 1]
           s == pop_loop(token.op, output_queue, operator_stack)
       IN  IF s.failed
           THEN /\ result' = Err(UnableToConvertToPostfix)
                /\ pc' = "done"
                /\ UNCHANGED <<idx, output_queue, operator_stack>>
           ELSE /\ output_queue' = s.output_queue
                /\ operator_stack' = Append(s.operator_stack, token)
                /\ idx' = idx + 1
                /\ UNCHANGED <<pc, result>>
    /\ UNCHANGED <<entry, line, tokens, rpn>>
    /\ UNCHANGED fracVars

\* lines 139-146: the input is exhausted
ShuntFlush ==
    /\ pc = "shunting_yard"
    /\ idx = Len(tokens)
    /\ output_queue' = flush(output_queue, operator_stack)
    /\ operator_stack' = <<>>
    /\ rpn' = output_queue'
    /\ IF entry = "eval"
       THEN pc' = "evaluate_rpn" /\ UNCHANGED result
       ELSE pc' = "done" /\ result' = Ok(output_queue')
    /\ UNCHANGED <<entry, line, tokens, idx>>
    /\ UNCHANGED fracVars

\* lines 89-90
EvaluateRpn ==
    /\ pc = "evaluate_rpn"
    /\ result' = evaluate_rpn(rpn)
    /\ pc' = "done"
    /\ UNCHANGED <<entry, line, tokens, idx, output_queue, operator_stack, rpn>>
    /\ UNCHANGED fracVars

Next ==
    \/ Tokenize
    \/ ShuntNumber
    \/ ShuntOperator
    \/ ShuntFlush
    \/ EvaluateRpn

Spec == Init /\ [][Next]_vars

\* ----------------------------------------- fraction.rs: the operations
EvalIdle ==
    /\ entry = "fraction"
    /\ line = <<>>
    /\ pc = "idle"
    /\ tokens = <<>>
    /\ idx = 0
    /\ output_queue = <<>>
    /\ operator_stack = <<>>
    /\ rpn = <<>>
    /\ result = Pending

\* three Fractions built with Fraction::new, including zero, undefined and
\* negative-denominator ones; or one Fraction from a wider range
FracInit ==
    /\ EvalIdle
    /\ \/ fx \in Fractions(MaxAbs) /\ fy \in Fractions(MaxAbs) /\ fz \in Fractions(MaxAbs)
       \/ fx \in Fractions(MaxSimplify) /\ fy = from(1) /\ fz = from(1)
    /\ fpc = "start"
    /\ fres = <<>>

\* f.simplify() on a copy of fx: fres is the Fraction after the call
FSimplify ==
    /\ fpc = "start"
    /\ fres' = simplify(fx)
    /\ fpc' = "simplify"
    /\ UNCHANGED <<fx, fy, fz>>
    /\ UNCHANGED evalVars

\* the == comparisons among fx, fy, fz, and of fx with the integer fy.numerator
FCompare ==
    /\ fpc = "start"
    /\ fres' = [xx |-> eq(fx, fx), yy |-> eq(fy, fy), zz |-> eq(fz, fz),
                xy |-> eq(fx, fy), yx |-> eq(fy, fx),
                yz |-> eq(fy, fz), xz |-> eq(fx, fz),
                xi |-> eq_i32(fx, fy.numerator)]
    /\ fpc' = "compare"
    /\ UNCHANGED <<fx, fy, fz>>
    /\ UNCHANGED evalVars

\* the arithmetic operators on fx, fy, fz
FArith ==
    /\ fpc = "start"
    /\ fres' = [x_add_y |-> add(fx, fy), y_add_x |-> add(fy, fx),
                xy_add_z |-> add(add(fx, fy), fz), x_add_yz |-> add(fx, add(fy, fz)),
                x_mul_y |-> mul(fx, fy), y_mul_x |-> mul(fy, fx),
                xy_mul_z |-> mul(mul(fx, fy), fz), x_mul_yz |-> mul(fx, mul(fy, fz)),
                x_sub_y |-> sub(fx, fy), x_div_y |-> div(fx, fy),
                neg_x |-> neg(fx), recip_x |-> reciprocal(fx)]
    /\ fpc' = "arith"
    /\ UNCHANGED <<fx, fy, fz>>
    /\ UNCHANGED evalVars

FracNext ==
    \/ FSimplify
    \/ FCompare
    \/ FArith

FracSpec == FracInit /\ [][FracNext]_vars

\* --------------------------------- the calculator: both entry points
\* a run of Equation::eval (or of the conversion alone), or the Fraction
\* operations applied to Fractions given directly
CalcNext ==
    \/ Next
    \/ FracNext

CalcSpec == (Init \/ FracInit) /\ [][CalcNext]_vars

\* ------------------- fraction.rs: simplify and == as the steps they run
\* The run of one call of simplify(), clone_simplified() or ==, one step per
\* statement group, on i32 values.  An arithmetic overflow panics in a build with
\* overflow checks (cargo's dev profile) and wraps in one without (release).
\* fres holds the locals of the call: the operation, the build, the Fractions
\* still to simplify (the first is the one being simplified), the simplified
\* ones, gcd's a and b, and the returned value.

\* x - y would leave the i32 range
sub_overflows(x, y) ==
    \/ y > 0 /\ x < I32_MIN + y
    \/ y < 0 /\ x > I32_MAX + y

\* x - y modulo 2^32, computed without leaving the i32 range
wrapping_sub(x, y) ==
    IF y > 0 /\ x < I32_MIN + y THEN (x - I32_MIN) + ((I32_MAX - y) + 1)
    ELSE IF y < 0 /\ x > I32_MAX + y THEN (x + I32_MIN) + (I32_MIN - y)
    ELSE x - y

\* x * -1 modulo 2^32
wrapping_neg(x) == IF x = I32_MIN THEN I32_MIN ELSE -x

\* Fractions at the ends of the i32 range
ExtremeFractions ==
    {new(I32_MIN, 3), new(3, I32_MIN), new(I32_MIN, I32_MIN),
     new(I32_MAX, I32_MAX), new(-I32_MAX, I32_MAX)}

Operations == {"simplify", "clone_simplified", "eq"}

StepInit ==
    /\ EvalIdle
    /\ \/ fx \in Fractions(MaxGcd) /\ fy \in Fractions(MaxGcd)
       \/ fx \in Fractions(MaxSimplify) /\ fy = from(1)
       \/ fx \in ExtremeFractions /\ fy = from(1)
    /\ fz = from(1)
    /\ fpc = "call"
    /\ \E op \in Operations : \E overflow_checks \in BOOLEAN :
           fres = [op |-> op, overflow_checks |-> overflow_checks,
                   pending |-> <<>>, done |-> <<>>, a |-> 0, b |-> 0,
                   value |-> <<>>]

\* lines 44-47, 50, 174-180: the call; == returns at once on identical parts
StepCall ==
    /\ fpc = "call"
    /\ IF fres.op = "eq"
       THEN IF is_same_as(fx, fy)
            THEN /\ fres' = [fres EXCEPT !.value = TRUE]
                 /\ fpc' = "returned"
            ELSE /\ fres' = [fres EXCEPT !.pending = <<fx, fy>>]
                 /\ fpc' = "simplify"
       ELSE /\ fres' = [fres EXCEPT !.pending = <<fx>>]
            /\ fpc' = "simplify"
    /\ UNCHANGED <<fx, fy, fz>>
    /\ UNCHANGED evalVars

\* lines 51-55: the early return, or the call of gcd
StepSimplify ==
    /\ fpc = "simplify"
    /\ fres.pending # <<>>
    /\ LET self == Head(fres.pending)
       IN  IF is_zero(self) \/ is_undefined(self)
           THEN /\ fres' = [fres EXCEPT !.pending = Tail(@), !.done = Append(@, self)]
                /\ UNCHANGED fpc
           ELSE /\ fres' = [fres EXCEPT !.a = self.numerator, !.b = self.denominator]
                /\ fpc' = "gcd_abs"
    /\ UNCHANGED <<fx, fy, fz>>
    /\ UNCHANGED evalVars

\* lines 11-16
StepGcdAbs ==
    /\ fpc = "gcd_abs"
    /\ IF fres.overflow_checks /\ (fres.a = I32_MIN \/ fres.b = I32_MIN)
       THEN /\ fpc' = "panicked"
            /\ UNCHANGED fres
       ELSE /\ fres' = [fres EXCEPT !.a = IF @ < 0 THEN wrapping_neg(@) ELSE @,
                                    !.b = IF @ < 0 THEN wrapping_neg(@) ELSE @]
            /\ fpc' = "gcd_loop"
    /\ UNCHANGED <<fx, fy, fz>>
    /\ UNCHANGED evalVars

\* lines 19-25: one iteration of the while loop
StepGcdLoop ==
    /\ fpc = "gcd_loop"
    /\ fres.a # fres.b
    /\ LET a == fres.a
           b == fres.b
       IN  IF a < b
           THEN IF fres.overflow_checks /\ sub_overflows(b, a)
                THEN fpc' = "panicked" /\ UNCHANGED fres
                ELSE fres' = [fres EXCEPT !.b = wrapping_sub(b, a)] /\ UNCHANGED fpc
           ELSE IF fres.overflow_checks /\ sub_overflows(a, b)
                THEN fpc' = "panicked" /\ UNCHANGED fres
                ELSE fres' = [fres EXCEPT !.a = wrapping_sub(a, b)] /\ UNCHANGED fpc
    /\ UNCHANGED <<fx, fy, fz>>
    /\ UNCHANGED evalVars

\* lines 27, 55-62: gcd returns a; the division and the sign flip.  A division
\* by zero or of i32::MIN by -1 panics in every build.
StepGcdReturn ==
    /\ fpc = "gcd_loop"
    /\ fres.a = fres.b
    /\ LET self == Head(fres.pending)
           g == fres.a
       IN  IF g = 0 \/ (g = -1 /\ (self.numerator = I32_MIN \/ self.denominator = I32_MIN))
           THEN fpc' = "panicked" /\ UNCHANGED fres
           ELSE LET n == TruncDiv(self.numerator, g)
                    d == TruncDiv(self.denominator, g)
                IN  IF d >= 0
                    THEN /\ fres' = [fres EXCEPT !.pending = Tail(@),
                                                 !.done = Append(@, new(n, d))]
                         /\ fpc' = "simplify"
                    ELSE IF fres.overflow_checks /\ (n = I32_MIN \/ d = I32_MIN)
                         THEN fpc' = "panicked" /\ UNCHANGED fres
                         ELSE /\ fres' = [fres EXCEPT
                                    !.pending = Tail(@),
                                    !.done = Append(@, new(wrapping_neg(n), wrapping_neg(d)))]
                              /\ fpc' = "simplify"
    /\ UNCHANGED <<fx, fy, fz>>
    /\ UNCHANGED evalVars

\* lines 47, 63, 181: the return, of the simplified Fraction or of the comparison
StepReturn ==
    /\ fpc = "simplify"
    /\ fres.pending = <<>>
    /\ fres' = [fres EXCEPT !.value = IF fres.op = "eq"
                                      THEN is_same_as(fres.done[1], fres.done[2])
                                      ELSE fres.done[1]]
    /\ fpc' = "returned"
    /\ UNCHANGED <<fx, fy, fz>>
    /\ UNCHANGED evalVars

StepNext ==
    \/ StepCall
    \/ StepSimplify
    \/ StepGcdAbs
    \/ StepGcdLoop
    \/ StepGcdReturn
    \/ StepReturn

\* the call runs on one thread, which takes its next step whenever it has one
StepSpec == StepInit /\ [][StepNext]_vars /\ WF_vars(StepNext)

\* ============================================================== claims
\* The definitions below state the claims.  They read the input line and compute
\* the expected values on their own: of the definitions above they use only the
\* constructors, the digit and precedence tables, and Fraction's == where a claim
\* is stated in terms of it.

\* ---- the input line, read independently of the tokenizer
\* where a substring can start or end: just outside s, and at its spaces
Boundaries(s) == {0, Len(s) + 1} \cup {i \in 1..Len(s) : s[i] = " "}

\* the pairs of neighbouring boundaries: a substring lies strictly between each
Segments(s) ==
    LET B == Boundaries(s)
    IN  {seg \in B \X B :
            /\ seg[1] < seg[2]
            /\ \A x \in B : ~(seg[1] < x /\ x < seg[2])}

Between(s, seg) == SubSeq(s, seg[1] + 1, seg[2] - 1)

\* the substrings of s between its spaces, in order: one more than it has spaces
Substrings(s) ==
    LET S == Segments(s)
    IN  [k \in 1..Cardinality(S) |->
            Between(s, CHOOSE seg \in S :
                           Cardinality({other \in S : other[1] < seg[1]}) = k - 1)]

\* <signed-int>: an optional sign and at least one decimal digit (every sampled
\* literal is far shorter than the ten digits of i32's range)
IsIntLiteral(w) ==
    /\ Len(w) >= 1
    /\ LET body == IF w[1] \in {"+", "-"} THEN Tail(w) ELSE w
       IN  /\ Len(body) >= 1
           /\ \A i \in 1..Len(body) : body[i] \in Digits

IsFractionLiteral(w) ==
    \/ IsIntLiteral(w)
    \/ \E k \in 1..Len(w) :
          /\ w[k] = "/"
          /\ IsIntLiteral(SubSeq(w, 1, k - 1))
          /\ IsIntLiteral(SubSeq(w, k + 1, Len(w)))

IsOperatorSymbol(w) == w \in {<<"+">>, <<"-">>, <<"*">>, <<"/">>}

IsTokenWord(w) == IsOperatorSymbol(w) \/ IsFractionLiteral(w)

RECURSIVE Pow10(_)
Pow10(n) == IF n = 0 THEN 1 ELSE 10 * Pow10(n - 1)

RECURSIVE PositionalSum(_, _)
PositionalSum(body, i) ==
    IF i > Len(body) THEN 0
    ELSE DigitVal(body[i]) * Pow10(Len(body) - i) + PositionalSum(body, i + 1)

IntLiteralValue(w) ==
    LET body == IF w[1] \in {"+", "-"} THEN Tail(w) ELSE w
    IN  IF w[1] = "-" THEN -PositionalSum(body, 1) ELSE PositionalSum(body, 1)

\* a rational as a pair <<numerator, denominator>>
LiteralRational(w) ==
    IF IsIntLiteral(w) THEN <<IntLiteralValue(w), 1>>
    ELSE LET k == CHOOSE k \in 1..Len(w) :
                     /\ w[k] = "/"
                     /\ IsIntLiteral(SubSeq(w, 1, k - 1))
                     /\ IsIntLiteral(SubSeq(w, k + 1, Len(w)))
         IN  <<IntLiteralValue(SubSeq(w, 1, k - 1)), IntLiteralValue(SubSeq(w, k + 1, Len(w)))>>

RatAdd(a, b) == <<a[1] * b[2] + b[1] * a[2], a[2] * b[2]>>
RatSub(a, b) == <<a[1] * b[2] - b[1] * a[2], a[2] * b[2]>>
RatMul(a, b) == <<a[1] * b[1], a[2] * b[2]>>
RatDiv(a, b) == <<a[1] * b[2], a[2] * b[1]>>

\* the line is number, operator, number, ..., number
WellFormedInfix(p) ==
    /\ Len(p) % 2 = 1
    /\ \A i \in 1..Len(p) :
          IF i % 2 = 1 THEN IsFractionLiteral(p[i]) ELSE IsOperatorSymbol(p[i])

\* the product chain p[i] (*|/) ... (*|/) p[k], grouped from the left
RECURSIVE RefTerm(_, _, _)
RefTerm(p, i, k) ==
    IF i = k THEN LiteralRational(p[k])
    ELSE IF p[k - 1] = <<"*">>
         THEN RatMul(RefTerm(p, i, k - 2), LiteralRational(p[k]))
         ELSE RatDiv(RefTerm(p, i, k - 2), LiteralRational(p[k]))

\* the value of p[1..k]: its last + or - splits it into an expression and a term
RECURSIVE RefExpr(_, _)
RefExpr(p, k) ==
    LET lows == {j \in 1..k : p[j] \in {<<"+">>, <<"-">>}}
    IN  IF lows = {} THEN RefTerm(p, 1, k)
        ELSE LET j == CHOOSE j \in lows : \A m \in lows : m <= j
             IN  IF p[j] = <<"+">>
                 THEN RatAdd(RefExpr(p, j - 1), RefTerm(p, j + 1, k))
                 ELSE RatSub(RefExpr(p, j - 1), RefTerm(p, j + 1, k))

\* Fraction f has the value of the rational r (or both have a zero denominator)
HasValue(f, r) ==
    /\ (f.denominator = 0) <=> (r[2] = 0)
    /\ f.numerator * r[2] = r[1] * f.denominator

\* C1: on a well-formed infix line eval returns Ok with the value of the expression
\* read with * and / binding tighter than + and -, all four left-associative and
\* applied as left op right.
C1_EvalInfixValue ==
    (entry = "eval" /\ pc = "done" /\ WellFormedInfix(Substrings(line))) =>
        /\ result.tag = "Ok"
        /\ HasValue(result.value, RefExpr(Substrings(line), Len(Substrings(line))))

\* "2/3 - -8/7 / 2/3" has been evaluated as 2/3 - (-8/7 / 2/3) = 2/3 - -24/14
C1_Witness ==
    /\ entry = "eval" /\ pc = "done"
    /\ line = Join(<<W_2_3, Minus, W_m8_7, Slash, W_2_3>>)
    /\ result = Ok(new(100, 42))
\* ---- shunting_yard_algorithm
Count(t, seq) == Cardinality({i \in 1..Len(seq) : seq[i] = t})

\* b holds every token of a exactly as often as a does
IsPermutation(a, b) ==
    /\ Len(a) = Len(b)
    /\ \A i \in 1..Len(a) : Count(a[i], a) = Count(a[i], b)

NumbersOf(seq) == SelectSeq(seq, LAMBDA t : t.kind = "Number")

\* shunting_yard_algorithm has returned Ok(rpn)
Converted ==
    \/ pc = "evaluate_rpn"
    \/ pc = "done" /\ entry = "shunting_yard_algorithm"
    \/ pc = "done" /\ entry = "eval"
          /\ (result.tag = "Ok" \/ result.error = "UnableToEvaluate")

ExampleInfix ==
    <<Number(new(2, 3)), Operator("Add"), Number(new(5, 8)), Operator("Mul"),
      Number(new(-8, 7))>>

ExamplePostfix ==
    <<Number(new(2, 3)), Number(new(5, 8)), Number(new(-8, 7)), Operator("Mul"),
      Operator("Add")>>

\* every token consumed so far is in the output or on the stack, once; the numbers
\* are in the output in their input order; the tokens of tests::rpn2 convert as the
\* test expects
C2_TokensConserved ==
    /\ pc = "shunting_yard" =>
          /\ IsPermutation(SubSeq(tokens, 1, idx), output_queue \o operator_stack)
          /\ NumbersOf(output_queue) = NumbersOf(SubSeq(tokens, 1, idx))
    /\ Converted =>
          /\ IsPermutation(tokens, rpn)
          /\ NumbersOf(rpn) = NumbersOf(tokens)
          /\ tokens = ExampleInfix => rpn = ExamplePostfix

\* one iteration of the for loop, and the final flush, as steps
C2_Step ==
    LET n == Len(operator_stack)
        m == Len(output_queue)
    IN  /\ (pc = "shunting_yard" /\ idx' = idx + 1 /\ tokens[idx + 1].kind = "Number") =>
              /\ output_queue' = output_queue \o <<tokens[idx + 1]>>
              /\ operator_stack' = operator_stack
        /\ (pc = "shunting_yard" /\ idx' = idx + 1 /\ tokens[idx + 1].kind = "Operator") =>
              LET op1 == tokens[idx + 1]
                  k == n + 1 - Len(operator_stack')
              IN  /\ k \in 0..n
                  \* the k topmost operators were popped: each binds at least as
                  \* tightly as op1, and the one left on top, if any, binds less
                  /\ \A j \in (n - k + 1)..n :
                        precedence(operator_stack[j].op) >= precedence(op1.op)
                  /\ k < n => precedence(operator_stack[n - k].op) < precedence(op1.op)
                  \* they went to the output top first, then op1 was pushed
                  /\ Len(output_queue') = m + k
                  /\ \A i \in 1..m : output_queue'[i] = output_queue[i]
                  /\ \A i \in 1..k : output_queue'[m + i] = operator_stack[n + 1 - i]
                  /\ \A i \in 1..(n - k) : operator_stack'[i] = operator_stack[i]
                  /\ operator_stack'[n - k + 1] = op1
        /\ (pc = "shunting_yard" /\ pc' # "shunting_yard") =>
              /\ Len(rpn') = m + n
              /\ \A i \in 1..m : rpn'[i] = output_queue[i]
              /\ \A i \in 1..n : rpn'[m + i] = operator_stack[n + 1 - i]

\* C2: shunting_yard_algorithm outputs every input token exactly once with the
\* numbers in their input order; an incoming operator op1 first pops to the output
\* every stack-top operator of precedence >= op1's and is then pushed; the rest of
\* the stack is flushed last pushed first; [2/3, Add, 5/8, Mul, -8/7] becomes
\* 2/3 5/8 -8/7 * +.
C2_ShuntingYard == [](C2_TokensConserved) /\ [][C2_Step]_vars

\* the example of tests::rpn2 has been converted
C2_Witness ==
    /\ Converted
    /\ tokens = ExampleInfix
    /\ rpn = ExamplePostfix

\* ---- evaluate_rpn
\* values on the stack after the first k tokens of a postfix sequence in which no
\* operator ran short of operands
Depth(p, k) ==
    Cardinality({i \in 1..k : p[i].kind = "Number"})
        - Cardinality({i \in 1..k : p[i].kind = "Operator"})

\* every operator finds two values, and exactly one value is left at the end
WellFormedPostfix(p) ==
    /\ \A k \in 1..Len(p) : p[k].kind = "Operator" => Depth(p, k - 1) >= 2
    /\ Depth(p, Len(p)) = 1

\* evaluate_rpn has returned
Evaluated ==
    /\ entry = "eval" /\ pc = "done"
    /\ (result.tag = "Ok" \/ result.error = "UnableToEvaluate")

\* C3: evaluate_rpn returns a value exactly when the postfix sequence is well
\* formed: UnableToEvaluate when an operator finds fewer than two values, and when
\* the stack does not hold exactly one value at the end.
C3_ValueIffWellFormedPostfix ==
    Evaluated => (result.tag = "Ok" <=> WellFormedPostfix(rpn))

\* ---- eval
AllWordsTokenize(s) == \A seg \in Segments(s) : IsTokenWord(Between(s, seg))

\* C4: a line whose words all tokenize but that is not number, operator, number,
\* ..., number makes eval return an error, never a value.
C4_MalformedInfixIsError ==
    (entry = "eval" /\ pc = "done" /\ AllWordsTokenize(line)
        /\ ~WellFormedInfix(Substrings(line))) =>
        /\ result.tag = "Err"
        /\ result.error \in {"UnableToEvaluate", "UnableToTokenize"}

\* C5: when some substring between single spaces (an empty one included) is neither
\* an operator symbol nor a Fraction literal, eval returns UnableToTokenize whatever
\* the other words are, and no token reaches the converter or the evaluator.
C5_BadWordIsTokenizeError ==
    (entry = "eval" /\ ~AllWordsTokenize(line)) =>
        /\ pc \in {"tokenize", "done"}
        /\ pc = "done" => result = [tag |-> "Err", error |-> "UnableToTokenize"]
        /\ tokens = <<>> /\ idx = 0
        /\ output_queue = <<>> /\ operator_stack = <<>> /\ rpn = <<>>

\* "3 + ?": two good tokens, then a bad word; without it the line would fail in
\* evaluate_rpn
C5_Witness ==
    /\ entry = "eval" /\ pc = "done"
    /\ line = <<"3", " ", "+", " ", "?">>
    /\ result = [tag |-> "Err", error |-> "UnableToTokenize"]

\* C10: shunting_yard_algorithm never returns UnableToConvertToPostfix: the stack
\* holds only Operator tokens, and every token sequence, the empty one included,
\* converts.
C10_ConversionNeverFails ==
    /\ result # [tag |-> "Err", error |-> "UnableToConvertToPostfix"]
    /\ \A i \in 1..Len(operator_stack) : operator_stack[i].kind = "Operator"
    /\ (entry = "shunting_yard_algorithm" /\ pc = "done") => result.tag = "Ok"
    /\ (entry = "eval" /\ pc = "done" /\ AllWordsTokenize(line)) => Evaluated

\* the empty token sequence has been converted, to the empty sequence
C10_Witness ==
    /\ entry = "shunting_yard_algorithm" /\ pc = "done"
    /\ tokens = <<>>
    /\ result = Ok(<<>>)

\* the precedence levels of a sequence of Operator tokens
Levels(seq) == [i \in 1..Len(seq) |-> precedence(seq[i].op)]

StrictlyIncreasing(levels) ==
    \A i \in 1..Len(levels) : \A j \in 1..Len(levels) : i < j => levels[i] < levels[j]

StrictlyDecreasing(levels) ==
    \A i \in 1..Len(levels) : \A j \in 1..Len(levels) : i < j => levels[i] > levels[j]

\* between two input tokens: only operators, lower precedence below higher
C11_StackOrdered ==
    pc = "shunting_yard" =>
        /\ \A i \in 1..Len(operator_stack) : operator_stack[i].kind = "Operator"
        /\ StrictlyIncreasing(Levels(operator_stack))
        /\ Len(operator_stack) <= 2

\* the step that ends the conversion appends the stacked operators to the
\* output, the one of highest precedence first
C11_FlushStep ==
    (pc = "shunting_yard" /\ idx = Len(tokens) /\ pc' # "shunting_yard") =>
        LET n == Len(output_queue)
            flushed == SubSeq(rpn', n + 1, Len(rpn'))
        IN  /\ Len(rpn') = n + Len(operator_stack)
            /\ SubSeq(rpn', 1, n) = output_queue
            /\ IsPermutation(operator_stack, flushed)
            /\ StrictlyDecreasing(Levels(flushed))
            /\ operator_stack' = <<>>

\* C11: after each input token is processed by shunting_yard_algorithm the
\* operator stack holds only Operator tokens whose precedences strictly increase
\* from bottom to top, hence at most two of them, and when the input is exhausted
\* the stack is flushed to the output in order of highest precedence first.
C11_OperatorStack == [](C11_StackOrdered) /\ [][C11_FlushStep]_vars

\* an addition below a multiplication, left on the stack at the end of the input
C11_Witness ==
    /\ pc = "shunting_yard"
    /\ idx = Len(tokens) /\ idx = 5
    /\ operator_stack = <<Operator("Add"), Operator("Mul")>>

\* ---- Fraction
Divides(k, n) == Abs(n) % k = 0
Coprime(n, d) == \A k \in 2..Abs(d) : ~(Divides(k, n) /\ Divides(k, d))

\* the rational values of a/b and c/d agree (b, d nonzero)
SameRational(f, g) == f.numerator * g.denominator = g.numerator * f.denominator

\* C6: simplify() puts a Fraction with nonzero numerator and denominator in lowest
\* terms over a positive denominator without changing its value, and leaves a zero
\* or undefined Fraction as it is.
C6_SimplifyNormalForm ==
    fpc = "simplify" =>
        IF fx.numerator # 0 /\ fx.denominator # 0
        THEN /\ fres.denominator > 0
             /\ Coprime(fres.numerator, fres.denominator)
             /\ fx.numerator * fres.denominator = fres.numerator * fx.denominator
        ELSE /\ fres.numerator = fx.numerator
             /\ fres.denominator = fx.denominator

\* tests::simplify_double_negative: -5/-25 has become 1/5
C6_Witness ==
    /\ fpc = "simplify"
    /\ fx = new(-5, -25)
    /\ fres = new(1, 5)

\* C7: for nonzero denominators, a/b == c/d exactly when a*d = c*b, and a Fraction
\* equals the integer n exactly when it equals Fraction(n, 1) by that rule.
C7_EqIsValueEquality ==
    (fpc = "compare" /\ fx.denominator # 0 /\ fy.denominator # 0) =>
        /\ fres.xy <=> SameRational(fx, fy)
        /\ fres.xi <=> SameRational(fx, new(fy.numerator, 1))

\* C8: == is reflexive, symmetric and transitive over all Fractions, the zero,
\* undefined and negative-denominator ones included.
C8_EqIsEquivalence ==
    fpc = "compare" =>
        /\ fres.xx /\ fres.yy /\ fres.zz
        /\ fres.xy <=> fres.yx
        /\ (fres.xy /\ fres.yz) => fres.xz

\* three different representations compared equal, one with negative parts
C8_Witness ==
    /\ fpc = "compare"
    /\ fx = new(1, 1) /\ fy = new(2, 2) /\ fz = new(-2, -2)
    /\ fres.xy /\ fres.yz /\ fres.xz

\* C9: for nonzero denominators, + and * are commutative and associative up to
\* Fraction's own ==.
C9_CommutativeAssociative ==
    (fpc = "arith" /\ fx.denominator # 0 /\ fy.denominator # 0 /\ fz.denominator # 0) =>
        /\ eq(fres.x_add_y, fres.y_add_x)
        /\ eq(fres.x_mul_y, fres.y_mul_x)
        /\ eq(fres.xy_add_z, fres.x_add_yz)
        /\ eq(fres.xy_mul_z, fres.x_mul_yz)

\* gcd runs on a Fraction whose parts are both nonzero, and its a and b are
\* strictly positive whenever the loop condition is tested
C12_GcdOnPositive ==
    /\ fpc \in {"gcd_abs", "gcd_loop"} =>
           /\ Head(fres.pending).numerator # 0
           /\ Head(fres.pending).denominator # 0
    /\ fpc = "gcd_loop" => (fres.a > 0 /\ fres.b > 0)

\* C12: simplify(), clone_simplified() and == terminate for every Fraction: gcd
\* is invoked only when numerator and denominator are both nonzero, and its
\* subtractive loop keeps a and b strictly positive and reaches a == b, so that
\* the call returns.
C12_Terminates == [](C12_GcdOnPositive) /\ <>(fpc = "returned")

\* simplify() of i32::MIN / 3 in a build without overflow checks, inside the loop:
\* a is still i32::MIN and b has wrapped; the next iteration restores b = 3
C12_Witness ==
    /\ fpc = "gcd_loop"
    /\ fres.op = "simplify"
    /\ fx = new(I32_MIN, 3)
    /\ fres.a = I32_MIN /\ fres.b = I32_MIN + 3

\* some division of the line has a literal of numerator 0 as its right operand
DividesByZeroValue(p) ==
    \E k \in 1..Len(p) :
        /\ k % 2 = 0
        /\ p[k] = <<"/">>
        /\ LiteralRational(p[k + 1])[1] = 0

\* C13: division by a zero-valued Fraction is not an error path: for Fractions x
\* and z with z's numerator 0, x / z is x * z.reciprocal(), a Fraction whose
\* denominator is 0, and eval of a well-formed line holding such a division
\* returns Ok with a Fraction (an undefined one), never an EquationError.
C13_DivisionByZeroValue ==
    /\ (fpc = "arith" /\ fy.numerator = 0) =>
           /\ fres.x_div_y.numerator = fx.numerator * fy.denominator
           /\ fres.x_div_y.denominator = fx.denominator * fy.numerator
           /\ fres.x_div_y.denominator = 0
    /\ (entry = "eval" /\ pc = "done" /\ WellFormedInfix(Substrings(line))
          /\ DividesByZeroValue(Substrings(line))) =>
           /\ result.tag = "Ok"
           /\ result.value.denominator = 0

\* "3 + 4 / 0 * 2/3" has been evaluated to the undefined Fraction 8/0
C13_Witness ==
    /\ entry = "eval" /\ pc = "done"
    /\ line = <<"3", " ", "+", " ", "4", " ", "/", " ", "0", " ", "*", " ",
                "2", "/", "3">>
    /\ result = [tag |-> "Ok", value |-> [numerator |-> 8, denominator |-> 0]]

====
